---------------------------- MODULE Spec2Model ----------------------------
(***************************************************************************)
(* A model of the `requirements` command-line tool: the matcher, the       *)
(* version-specifier normaliser, the two sorters, the scoped locale        *)
(* binding and the file-editing commands.                                  *)
(*                                                                         *)
(* A Python str is a sequence of one-character strings, so that strip,     *)
(* lower, split, startswith, replace and comparison are computed the way   *)
(* the code computes them.                                                 *)
(***************************************************************************)
EXTENDS Integers, Sequences, FiniteSets, TLC

VARIABLES
    lines,            \* SpecSort: the list handed to the sorter
    mode,             \* SpecSort: "legacy" (sorting.py) or "section" (main.py)
    locale_,          \* SpecSort: the locale the section sorter binds, or "None"
    sorted1,          \* SpecSort: sort(lines)
    sorted2,          \* SpecSort: sort(sort(lines))
    spc,              \* SpecSort: "init", "once", "twice"
    env_locale,       \* SpecSort: what _get_locale_from_env returns, or "None"
    sort_warnings,    \* SpecSort: warnings echoed by the sorts so far
    target,           \* SpecMatch: the package name searched for
    req_line,         \* SpecMatch: the line it is matched against
    matched,          \* SpecMatch: what check_package_name returned
    mpc,              \* SpecMatch: "init", "done"
    version_token,    \* SpecNorm: the raw version argument
    normalized,       \* SpecNorm: version_specifier after the "==" default
    invalid,          \* SpecNorm: whether click.ClickException was raised
    npc,              \* SpecNorm: "init", "done"
    lc_collate,       \* SpecLocale: the process-wide LC_COLLATE setting
    requested,        \* SpecLocale: new_locale of the latest set_locale call
    current_locale,   \* SpecLocale: what set_locale saved from getlocale
    lpc,              \* SpecLocale: "idle", or the yield the scope is open at
    prior,            \* SpecLocale: LC_COLLATE when the latest call began
    ended,            \* SpecLocale: "none", "normal", "exception"
    outcome,          \* SpecLocale: "none", "plain", "bound", "unavailable"
    restore_raised,   \* SpecLocale: the restoring setlocale raised locale.Error
    warnings,         \* SpecLocale: warnings echoed so far
    acquisitions,     \* SpecLocale: set_locale calls so far
    open_scopes,      \* SpecLocale: set_locale scopes entered and not yet left
    disk,             \* SpecCmd: the text of each requirements.txt
    disk0,            \* SpecCmd: the text of each file when the command began
    impl,             \* SpecCmd: "requirements/main.py" or the older "main.py"
    cmd_package,      \* SpecCmd: the package_name argument
    cmd_token,        \* SpecCmd: the version_specifier argument
    preview,          \* SpecCmd: the --preview flag
    queue,            \* SpecCmd: the gathered files not yet processed
    processed,        \* SpecCmd: per processed file, the contents computed
    tree_file,        \* SpecGather: the directory, below the working directory,
                      \*   that holds the one requirements.txt of the tree
    is_link,          \* SpecGather: whether that requirements.txt is a symlink
    given,            \* SpecGather: the search path, [absolute, parts]
    gathered,         \* SpecGather: the strings of the paths returned
    gpc,              \* SpecGather: "start" or "done"
    url_outcomes,     \* SpecFetch: what a fetch from index_url and from each
                      \*   extra index URL does: "ok", "404", "500", "URLError"
    fallback_outcome, \* SpecFetch: the same for fallback_url, "None" when unset
    next_url,         \* SpecFetch: the position of the loop in urls_to_try
    is_404_error,     \* SpecFetch: the flag of that name
    last_error,       \* SpecFetch: the error last caught, "None" at first
    tried,            \* SpecFetch: the URLs fetched from, in order
    url_used,         \* SpecFetch: the URL returned, 0 when none
    fpc,              \* SpecFetch: "loop", "returned" or "raised"
    cpc,              \* SpecCmd: "start", "files", "done", "aborted", "crashed"
    command,          \* SpecCmd: "update", "add", "remove" or "sort"
    runs,             \* SpecCmd: how many times the command was invoked
    host_locales,     \* SpecDetect: the locale names this host can bind
    detect_env,       \* SpecDetect: what _get_locale_from_env returns, or "None"
    system_locale,    \* SpecDetect: the module global _SYSTEM_LOCALE
    detections,       \* SpecDetect: runs of get_system_locale so far
    default_calls,    \* SpecDetect: calls of get_default_locale so far
    returned          \* SpecDetect: what the last call returned

sortVars == <<lines, mode, locale_, sorted1, sorted2, spc, env_locale, sort_warnings>>

matchVars == <<target, req_line, matched, mpc>>

normVars == <<version_token, normalized, invalid, npc>>

localeVars ==
    <<lc_collate, requested, current_locale, lpc, prior, ended, outcome,
      restore_raised, warnings, acquisitions,
      open_scopes>>

cmdVars ==
    <<disk, disk0, impl, cmd_package, cmd_token, preview, queue, processed, cpc,
      command, runs>>

gatherVars == <<tree_file, is_link, given, gathered, gpc>>

fetchVars ==
    <<url_outcomes, fallback_outcome, next_url, is_404_error, last_error, tried,
      url_used, fpc>>

detectVars ==
    <<host_locales, detect_env, system_locale, detections, default_calls, returned>>

vars == <<sortVars, matchVars, normVars, localeVars, cmdVars, detectVars, gatherVars, fetchVars>>

----------------------------------------------------------------------------
(* Bounds of the model.                                                    *)

MaxSortLines == 3

MaxNameParts == 3

MaxTokenLen == 4

MaxAcquisitions == 2

MaxFileLines == 3

MaxDefaultCalls == 2

\* How many times in a row the sort command is invoked.
MaxRuns == 2

\* How many directories deep below the working directory the file lies.
MaxDepth == 2

\* How many index URLs a configuration lists: index_url and the extra ones.
MaxUrls == 3

----------------------------------------------------------------------------
(* Python str primitives.                                                  *)

\* The characters of the model in code point order.
CodepointOrder ==
    << "\n", " ", "!", "#", "&", "+", ",", "-", ".", "/", "1", "2", "3", ":", "<",
       "=", ">", "@", "A", "B", "E", "[", "]", "_", "a", "b", "c", "d", "e",
       "f", "g", "h", "i", "j", "k", "l", "m", "n", "o", "p", "q", "r", "s",
       "t", "u", "v", "w", "x", "y", "z", "~" >>

Chars == {CodepointOrder[i] : i \in DOMAIN CodepointOrder}

\* ord(c), up to an order-preserving renumbering.
Ord == [c \in Chars |-> CHOOSE i \in DOMAIN CodepointOrder : CodepointOrder[i] = c]

\* str.lower() on one character.
LowerChar(c) ==
    CASE c = "A" -> "a"
      [] c = "B" -> "b"
      [] c = "E" -> "e"
      [] OTHER -> c

\* str.lower()
lower(s) == [i \in DOMAIN s |-> LowerChar(s[i])]

\* str.replace(a, b) for one-character a and b
replace(s, a, b) == [i \in DOMAIN s |-> IF s[i] = a THEN b ELSE s[i]]

IsSpace(c) == c \in {" ", "\n"}

\* str.strip()
strip(s) ==
    LET keep == {i \in DOMAIN s : ~IsSpace(s[i])}
    IN  IF keep = {} THEN <<>>
        ELSE LET lo == CHOOSE i \in keep : \A j \in keep : i <= j
                 hi == CHOOSE i \in keep : \A j \in keep : j <= i
             IN  SubSeq(s, lo, hi)

\* s[a-1:b]: the characters at positions a..b that exist
slice(s, a, b) ==
    LET lo == IF a < 1 THEN 1 ELSE a
        hi == IF b > Len(s) THEN Len(s) ELSE b
    IN  IF lo > hi THEN <<>> ELSE SubSeq(s, lo, hi)

\* str.startswith(p)
startswith(s, p) == Len(p) <= Len(s) /\ SubSeq(s, 1, Len(p)) = p

\* str.find(p) + 1: the position of the first occurrence of p in s, 0 if none
find(s, p) ==
    LET at == {i \in 1..(Len(s) - Len(p) + 1) : SubSeq(s, i, i + Len(p) - 1) = p}
    IN  IF at = {} THEN 0 ELSE CHOOSE i \in at : \A j \in at : i <= j

\* p in s
contains(s, p) == find(s, p) # 0

\* s.split(p)[0]
split_first(s, p) == IF find(s, p) = 0 THEN s ELSE SubSeq(s, 1, find(s, p) - 1)

\* s.split(p)[-1]: the text after the last occurrence of p
split_last(s, p) ==
    LET at == {i \in 1..(Len(s) - Len(p) + 1) : SubSeq(s, i, i + Len(p) - 1) = p}
    IN  IF at = {} THEN s
        ELSE SubSeq(s, (CHOOSE i \in at : \A j \in at : j <= i) + Len(p), Len(s))

\* The version-specifier operators of re.split(r"~=|==|>=|<=|!=|>|<", ...)
SpecifierOps ==
    { <<"~", "=">>, <<"=", "=">>, <<">", "=">>, <<"<", "=">>, <<"!", "=">>,
      <<">">>, <<"<">> }

\* re.split(r"~=|==|>=|<=|!=|>|<", s)[0]: the text before the leftmost match
split_specifier(s) ==
    LET at == {find(s, op) : op \in SpecifierOps} \ {0}
    IN  IF at = {} THEN s
        ELSE SubSeq(s, 1, (CHOOSE i \in at : \A j \in at : i <= j) - 1)

\* (a > b) - (a < b) on str: code point order, a proper prefix first
RECURSIVE basic_compare(_, _)
basic_compare(a, b) ==
    IF a = <<>> /\ b = <<>> THEN 0
    ELSE IF a = <<>> THEN -1
    ELSE IF b = <<>> THEN 1
    ELSE IF Ord[Head(a)] < Ord[Head(b)] THEN -1
    ELSE IF Ord[Head(a)] > Ord[Head(b)] THEN 1
    ELSE basic_compare(Tail(a), Tail(b))


\* locale.strcoll(a, b) while LC_COLLATE is bound to loc.  The C family
\* collates by code point; a language locale collates case-insensitively
\* first and puts the lower-case form first among equals.
strcoll(loc, a, b) ==
    IF loc \in {"C", "POSIX", "C.UTF-8"} THEN basic_compare(a, b)
    ELSE LET c == basic_compare(lower(a), lower(b))
         IN  IF c # 0 THEN c ELSE basic_compare(b, a)

\* The comparison function a set_locale scope yields: "basic" is the lambda
\* (a > b) - (a < b), any other value is locale.strcoll under that locale.
compare(cmp, a, b) ==
    IF cmp = "basic" THEN basic_compare(a, b) ELSE strcoll(cmp, a, b)

----------------------------------------------------------------------------
(* sorted(): Python's stable sort, on keys computed beforehand.            *)

\* A variant that puts an item before the items it ties with.
RECURSIVE insert_before_ties(_, _, _, _)
insert_before_ties(order, i, keys, cmp) ==
    IF order = <<>> THEN <<i>>
    ELSE IF compare(cmp, keys[i], keys[Head(order)]) <= 0 THEN <<i>> \o order
    ELSE <<Head(order)>> \o insert_before_ties(Tail(order), i, keys, cmp)

\* Insert index i into the sorted index list `order`, after every index
\* whose key is not greater: ties keep their input order.
RECURSIVE insert(_, _, _, _)
insert(order, i, keys, cmp) ==
    IF order = <<>> THEN <<i>>
    ELSE IF compare(cmp, keys[i], keys[Head(order)]) < 0 THEN <<i>> \o order
    ELSE <<Head(order)>> \o insert(Tail(order), i, keys, cmp)

RECURSIVE sort_order(_, _, _)
sort_order(n, keys, cmp) ==
    IF n = 0 THEN <<>> ELSE insert(sort_order(n - 1, keys, cmp), n, keys, cmp)

\* sorted(items, key=...) where keys[i] is the key of items[i]
sorted(items, keys, cmp) ==
    LET order == sort_order(Len(items), keys, cmp)
    IN  [k \in DOMAIN items |-> items[order[k]]]

----------------------------------------------------------------------------
(* requirements/sorting.py: the legacy sorter of the current commands.     *)

\* A variant that defers only the lines that begin with "./" or "../".
is_path_reference_no_editable(line) ==
    LET stripped == lower(strip(line))
    IN  startswith(stripped, <<".", "/">>) \/ startswith(stripped, <<".", ".", "/">>)

is_path_reference(line) ==
    LET stripped == lower(strip(line))
    IN  \/ startswith(stripped, <<"-", "e", " ", ".", "/">>)
        \/ startswith(stripped, <<"-", "e", " ", ".", ".", "/">>)
        \/ startswith(stripped, <<".", "/">>)
        \/ startswith(stripped, <<".", ".", "/">>)
        \/ (startswith(stripped, <<"-", "e", " ">>) /\ contains(stripped, <<"/">>))

get_sort_key(line) ==
    LET stripped == strip(line)
        nocomment == IF contains(stripped, <<"#">>)
                     THEN strip(split_first(stripped, <<"#">>))
                     ELSE stripped
        noextras == split_first(nocomment, <<"[">>)
    IN  strip(split_specifier(noextras))

\* A variant that skips every line holding a "#", inline comments included.
is_skipped_any_hash(line) == strip(line) = <<>> \/ contains(strip(line), <<"#">>)

\* The lines the loop skips: blank ones and standalone comments.
is_skipped(line) == strip(line) = <<>> \/ startswith(strip(line), <<"#">>)

is_regular_package(line) == ~is_skipped(line) /\ ~is_path_reference(strip(line))

is_deferred(line) == ~is_skipped(line) /\ is_path_reference(strip(line))

sort_packages(ls) ==
    IF ls = <<>> THEN ls
    ELSE LET regular_packages == SelectSeq(ls, is_regular_package)
             path_references == SelectSeq(ls, is_deferred)
             keys == [i \in DOMAIN regular_packages |-> get_sort_key(regular_packages[i])]
         IN  sorted(regular_packages, keys, "basic") \o path_references

----------------------------------------------------------------------------
(* src/main.py: the section-preserving sorter.                             *)

\* The locales setlocale accepts on the modelled host.
AvailableLocales == {"C", "en_US.UTF-8"}

\* _is_locale_available(locale_name) on a host that can bind the names in
\* `host`
is_locale_available(locale_name, host) == locale_name \in host

\* candidate.endswith((".UTF-8", ".utf8"))
ends_with_utf8(candidate) == candidate \in {"C.UTF-8", "en_US.UTF-8", "en_GB.UTF-8"}

\* f"{candidate}.UTF-8"
utf8_candidate(candidate) ==
    CASE candidate = "en_US" -> "en_US.UTF-8"
      [] candidate = "xx_XX" -> "xx_XX.UTF-8"
      [] OTHER -> "None"

\* The candidates get_system_locale tries, in order, env being the locale
\* named by the environment with its encoding removed.
locale_candidates(env) == <<env, "C.UTF-8", "en_US.UTF-8", "en_GB.UTF-8", "C", "POSIX">>

RECURSIVE first_available(_, _)
first_available(candidates, host) ==
    IF candidates = <<>> THEN "None"
    ELSE LET candidate == Head(candidates)
         IN  IF candidate = "None" THEN first_available(Tail(candidates), host)
             ELSE IF /\ ~ends_with_utf8(candidate)
                     /\ candidate \notin {"C", "POSIX"}
                     /\ is_locale_available(utf8_candidate(candidate), host)
             THEN utf8_candidate(candidate)
             ELSE IF is_locale_available(candidate, host) THEN candidate
             ELSE first_available(Tail(candidates), host)

get_system_locale(env, host) == first_available(locale_candidates(env), host)

\* get_default_locale() with _SYSTEM_LOCALE holding `cache`: the value
\* returned, the new _SYSTEM_LOCALE, and whether get_system_locale ran.
get_default_locale(cache, env, host) ==
    IF cache = "None"
    THEN [value |-> get_system_locale(env, host),
          cache |-> get_system_locale(env, host),
          detected |-> TRUE]
    ELSE [value |-> cache, cache |-> cache, detected |-> FALSE]

\* The locale sort_packages passes on: the one given, or the detected one.
effective_locale(loc, env) ==
    IF loc = "None" THEN get_system_locale(env, AvailableLocales) ELSE loc

\* What `with set_locale(loc) as strcoll` binds strcoll to.
yielded_comparator(loc) ==
    IF loc = "None" THEN "basic"
    ELSE IF loc \in AvailableLocales THEN loc
    ELSE "basic"

\* locale.getlocale(LC_COLLATE): the setting parsed into (language, encoding)
getlocale(setting) ==
    IF setting \in {"C", "POSIX"} THEN <<"None", "None">>
    ELSE IF setting = "en_US.UTF-8" THEN <<"en_US", "UTF-8">>
    ELSE <<setting, "None">>

\* The locale name setlocale builds from a (language, encoding) pair
build_localename(pair) ==
    IF pair = <<"None", "None">> THEN "C"
    ELSE IF pair[2] = "None" THEN pair[1]
    ELSE IF pair = <<"en_US", "UTF-8">> THEN "en_US.UTF-8"
    ELSE pair[1]

\* Whether the restoring setlocale may raise: the C locale always binds, any
\* other name is up to the host.
restore_may_raise(pair) == pair # <<"None", "None">>

\* A variant of the finally clause that restores nothing.
after_finally_skipped(setting, saved, raises) == setting

\* LC_COLLATE after the finally clause of set_locale, whose failure is
\* swallowed.
after_finally(setting, saved, raises) ==
    IF raises THEN setting ELSE build_localename(saved)

is_blank(line) == strip(line) = <<>>

is_comment(line) == startswith(strip(line), <<"#">>)

RECURSIVE parse_from(_, _, _)
parse_from(rest, sections, current_section) ==
    IF rest = <<>>
    THEN IF current_section # <<>> THEN Append(sections, current_section) ELSE sections
    ELSE IF is_blank(Head(rest))
         THEN IF current_section # <<>>
              THEN parse_from(Tail(rest), Append(sections, current_section), <<>>)
              ELSE parse_from(Tail(rest), sections, current_section)
         ELSE parse_from(Tail(rest), sections, Append(current_section, Head(rest)))

\* A variant that never starts a new section.
parse_into_one_section(ls) ==
    LET kept == SelectSeq(ls, LAMBDA l : ~is_blank(l))
    IN  IF kept = <<>> THEN <<>> ELSE <<kept>>

parse_into_sections(ls) == parse_from(ls, <<>>, <<>>)

\* get_sort_key local to _sort_section
section_sort_key(line) ==
    lower(strip(
        split_first(split_first(split_first(split_first(split_first(split_first(
        split_first(line, <<"=", "=">>), <<">", "=">>), <<"<", "=">>), <<">">>),
        <<"<">>), <<"!", "=">>), <<"~", "=">>)))

is_section_package(line) == ~is_comment(line) /\ ~is_blank(line)

\* A variant that leaves the packages unsorted when the locale cannot be
\* bound.
sort_section_unsorted_fallback(section, loc) ==
    IF section = <<>> THEN section
    ELSE LET comments == SelectSeq(section, is_comment)
             packages == SelectSeq(section, is_section_package)
             keys == [i \in DOMAIN packages |-> section_sort_key(packages[i])]
         IN  IF loc # "None" /\ loc \notin AvailableLocales
             THEN comments \o packages
             ELSE comments \o sorted(packages, keys, yielded_comparator(loc))

sort_section(section, loc) ==
    IF section = <<>> THEN section
    ELSE LET comments == SelectSeq(section, is_comment)
             packages == SelectSeq(section, is_section_package)
             keys == [i \in DOMAIN packages |-> section_sort_key(packages[i])]
         IN  comments \o sorted(packages, keys, yielded_comparator(loc))

\* A variant that puts the blank line after every section, the last too.
RECURSIVE rebuild_trailing_blank(_)
rebuild_trailing_blank(sorted_sections) ==
    IF sorted_sections = <<>> THEN <<>>
    ELSE Head(sorted_sections) \o << <<>> >> \o rebuild_trailing_blank(Tail(sorted_sections))

RECURSIVE rebuild(_)
rebuild(sorted_sections) ==
    IF sorted_sections = <<>> THEN <<>>
    ELSE IF Len(sorted_sections) = 1 THEN Head(sorted_sections)
    ELSE Head(sorted_sections) \o << <<>> >> \o rebuild(Tail(sorted_sections))

sort_with_comment_preservation(ls, loc) ==
    IF ls = <<>> THEN ls
    ELSE LET sections == parse_into_sections(ls)
             sorted_sections == [i \in DOMAIN sections |-> sort_section(sections[i], loc)]
         IN  rebuild(sorted_sections)

\* The warnings click.echo prints while one section is sorted: one when
\* setlocale raises in the set_locale scope the section opens.
section_warnings(section, loc) ==
    IF section = <<>> THEN 0
    ELSE IF loc # "None" /\ loc \notin AvailableLocales THEN 1
    ELSE 0

RECURSIVE sum_warnings(_, _)
sum_warnings(sections, loc) ==
    IF sections = <<>> THEN 0
    ELSE section_warnings(Head(sections), loc) + sum_warnings(Tail(sections), loc)

\* The warnings printed by _sort_with_comment_preservation(ls, loc).
warnings_echoed(ls, loc) ==
    IF ls = <<>> THEN 0 ELSE sum_warnings(parse_into_sections(ls), loc)

\* The sorter a call site gets, by mode.
sort(m, ls, loc, env) ==
    IF m = "legacy" THEN sort_packages(ls)
    ELSE sort_with_comment_preservation(ls, effective_locale(loc, env))

\* The warnings that call prints.
sort_echoes(m, ls, loc, env) ==
    IF m = "legacy" THEN 0 ELSE warnings_echoed(ls, effective_locale(loc, env))

----------------------------------------------------------------------------
(* requirements/packages.py: the matcher.                                  *)

UrlPrefixes ==
    { <<"g", "i", "t", "+">>, <<"g", "i", "t", ":", "/", "/">>, <<"h", "g", "+">>,
      <<"s", "v", "n", "+">>, <<"b", "z", "r", "+">>,
      <<"h", "t", "t", "p", ":", "/", "/">>, <<"h", "t", "t", "p", "s", ":", "/", "/">>,
      <<"f", "i", "l", "e", ":", "/", "/">> }

is_url_requirement(line) ==
    LET line_stripped == lower(strip(line))
    IN  \/ \E prefix \in UrlPrefixes : startswith(line_stripped, prefix)
        \/ contains(line_stripped, <<" ", "@", " ">>)

\* Optional[str]: None, or a str value
None == [is_none |-> TRUE, value |-> <<>>]

Some(v) == [is_none |-> FALSE, value |-> v]

\* Where (?:@|#|$) matches at position k of s
url_terminator(s, k) == k = Len(s) + 1 \/ (k <= Len(s) /\ s[k] \in {"@", "#"})

\* Whether /([^/]+?)(?:\.git)?(?:@|#|$) matches at the "/" at position i
\* with a group of n characters
url_group_matches(s, i, n) ==
    /\ s[i] = "/"
    /\ n >= 1
    /\ i + n <= Len(s)
    /\ \A k \in (i + 1)..(i + n) : s[k] # "/"
    /\ \/ /\ slice(s, i + n + 1, i + n + 4) = <<".", "g", "i", "t">>
          /\ url_terminator(s, i + n + 5)
       \/ url_terminator(s, i + n + 1)

\* re.search(r"/([^/]+?)(?:\.git)?(?:@|#|$)", s): the leftmost "/" with a
\* match and, there, the shortest group
url_search(s) ==
    LET starts == {i \in DOMAIN s : \E n \in 1..Len(s) : url_group_matches(s, i, n)}
    IN  IF starts = {} THEN None
        ELSE LET i == CHOOSE a \in starts : \A b \in starts : a <= b
                 ns == {n \in 1..Len(s) : url_group_matches(s, i, n)}
                 n == CHOOSE a \in ns : \A b \in ns : a <= b
             IN  Some(SubSeq(s, i + 1, i + n))

HostGithub == <<"g", "i", "t", "h", "u", "b", ".", "c", "o", "m">>

HostGitlab == <<"g", "i", "t", "l", "a", "b", ".", "c", "o", "m">>

EggMarker == <<"#", "e", "g", "g", "=">>

\* A variant that takes the last path segment on any host.
extract_package_from_url_any_host(line) ==
    LET line_stripped == strip(line)
    IN  IF contains(lower(line_stripped), EggMarker)
        THEN LET egg_part == split_last(lower(line_stripped), EggMarker)
             IN  Some(strip(split_first(split_first(egg_part, <<"&">>), <<"#">>)))
        ELSE IF contains(line_stripped, <<" ", "@", " ">>)
        THEN Some(lower(strip(split_first(line_stripped, <<" ", "@", " ">>))))
        ELSE LET match == url_search(line_stripped)
             IN  IF match.is_none THEN None ELSE Some(lower(match.value))

\* A variant that keeps the fragments that follow the egg name.
extract_package_from_url_whole_fragment(line) ==
    LET line_stripped == strip(line)
    IN  IF contains(lower(line_stripped), EggMarker)
        THEN Some(strip(split_last(lower(line_stripped), EggMarker)))
        ELSE IF contains(line_stripped, <<" ", "@", " ">>)
        THEN Some(lower(strip(split_first(line_stripped, <<" ", "@", " ">>))))
        ELSE IF contains(line_stripped, HostGithub) \/ contains(line_stripped, HostGitlab)
        THEN LET match == url_search(line_stripped)
             IN  IF match.is_none THEN None ELSE Some(lower(match.value))
        ELSE None

extract_package_from_url(line) ==
    LET line_stripped == strip(line)
    IN  IF contains(lower(line_stripped), EggMarker)
        THEN LET egg_part == split_last(lower(line_stripped), EggMarker)
             IN  Some(strip(split_first(split_first(egg_part, <<"&">>), <<"#">>)))
        ELSE IF contains(line_stripped, <<" ", "@", " ">>)
        THEN Some(lower(strip(split_first(line_stripped, <<" ", "@", " ">>))))
        ELSE IF contains(line_stripped, HostGithub) \/ contains(line_stripped, HostGitlab)
        THEN LET match == url_search(line_stripped)
             IN  IF match.is_none THEN None ELSE Some(lower(match.value))
        ELSE None

check_package_name(package_name, line) ==
    LET package_name_lower == lower(package_name)
        line_lower == strip(lower(line))
    IN  IF package_name_lower = line_lower THEN TRUE
        ELSE IF startswith(strip(line), <<"#">>) THEN FALSE
        ELSE IF is_url_requirement(line)
        THEN LET url_package == extract_package_from_url(line)
             IN  IF ~url_package.is_none /\ url_package.value # <<>>
                 THEN replace(url_package.value, "-", "_")
                          = replace(package_name_lower, "-", "_")
                 ELSE FALSE
        ELSE LET dashed == IF contains(package_name_lower, <<"-">>)
                           THEN replace(line_lower, "_", "-")
                           ELSE line_lower
                 underscored == IF contains(package_name_lower, <<"_">>)
                                THEN replace(dashed, "-", "_")
                                ELSE dashed
             IN  IF \/ startswith(underscored, <<".", "/">>)
                    \/ startswith(underscored, <<".", ".", "/">>)
                 THEN contains(split_last(underscored, <<"/">>), package_name_lower)
                 ELSE package_name_lower
                          = strip(split_specifier(split_first(underscored, <<"[">>)))

\* packaging's version grammar on the characters of the model: release
\* segments of digits separated by single dots.
is_version(v) ==
    /\ v # <<>>
    /\ \A i \in DOMAIN v : v[i] \in {"1", "2", "3", "."}
    /\ v[1] # "." /\ v[Len(v)] # "."
    /\ \A i \in 1..(Len(v) - 1) : ~(v[i] = "." /\ v[i + 1] = ".")

\* packaging.specifiers.Specifier(text) parses
is_specifier(text) ==
    IF startswith(text, <<"=", "=", "=">>) THEN TRUE
    ELSE IF \E op \in {<<"=", "=">>, <<"!", "=">>, <<"<", "=">>, <<">", "=">>} :
                startswith(text, op)
    THEN is_version(slice(text, 3, Len(text)))
    ELSE IF startswith(text, <<"~", "=">>)
    THEN is_version(slice(text, 3, Len(text))) /\ contains(text, <<".">>)
    ELSE IF startswith(text, <<"<">>) \/ startswith(text, <<">">>)
    THEN is_version(slice(text, 2, Len(text)))
    ELSE FALSE

\* text.split(",")
RECURSIVE split_commas(_)
split_commas(text) ==
    IF find(text, <<",">>) = 0 THEN <<text>>
    ELSE <<split_first(text, <<",">>)>>
             \o split_commas(slice(text, find(text, <<",">>) + 1, Len(text)))

\* packaging.specifiers.SpecifierSet(text) parses: every non-empty piece
\* between commas is a specifier
SpecifierSet(text) ==
    LET pieces == split_commas(text)
    IN  \A i \in DOMAIN pieces :
            strip(pieces[i]) = <<>> \/ is_specifier(strip(pieces[i]))

OperatorPrefixes ==
    { <<"=", "=">>, <<"!", "=">>, <<">", "=">>, <<"<", "=">>, <<">">>, <<"<">>,
      <<"~", "=">> }

\* A variant whose operator tuple lacks "~=".
validate_version_specifier_no_compatible(version_specifier) ==
    LET prefixed ==
            IF \E op \in OperatorPrefixes \ {<<"~", "=">>} : startswith(version_specifier, op)
            THEN version_specifier
            ELSE <<"=", "=">> \o version_specifier
    IN  [value |-> prefixed, raised |-> ~SpecifierSet(prefixed)]

\* The value returned, or the value named in the ClickException raised.
validate_version_specifier(version_specifier) ==
    LET prefixed ==
            IF \E op \in OperatorPrefixes : startswith(version_specifier, op)
            THEN version_specifier
            ELSE <<"=", "=">> \o version_specifier
    IN  [value |-> prefixed, raised |-> ~SpecifierSet(prefixed)]

----------------------------------------------------------------------------
(* requirements/main.py and the older main.py: the update command.         *)

\* "\n".join(ls)
RECURSIVE join_lines(_)
join_lines(ls) ==
    IF ls = <<>> THEN <<>>
    ELSE IF Len(ls) = 1 THEN Head(ls)
    ELSE Head(ls) \o <<"\n">> \o join_lines(Tail(ls))

\* str.splitlines()
RECURSIVE splitlines(_)
splitlines(text) ==
    IF text = <<>> THEN <<>>
    ELSE IF find(text, <<"\n">>) = 0 THEN <<text>>
    ELSE <<split_first(text, <<"\n">>)>>
             \o splitlines(slice(text, find(text, <<"\n">>) + 1, Len(text)))

\* The text write_text is given: "\n".join(contents).strip() + "\n"
written_text(contents) == strip(join_lines(contents)) \o <<"\n">>

\* The sorter each implementation calls after an edit; the older one is run
\* with --locale C.
sort_after_edit(im, contents) ==
    IF im = "requirements/main.py" THEN sort_packages(contents)
    ELSE sort_with_comment_preservation(contents, "C")

\* f"{package_name}{version_specifier}{inline_comment}"
updated_line(package_name, version_specifier, line) ==
    LET inline_comment ==
            IF contains(line, <<"#">>) /\ ~startswith(strip(line), <<"#">>)
            THEN <<" ", " ">> \o slice(line, find(line, <<"#">>), Len(line))
            ELSE <<>>
    IN  package_name \o version_specifier \o inline_comment

\* for index, line in enumerate(contents): ... from position `index` on.
\* `iterated` is the list object enumerate holds; `contents` is the list the
\* name is bound to, another object once sort_packages has returned.  An
\* index past the end of `contents` raises IndexError.
RECURSIVE update_loop(_, _, _, _, _, _, _)
update_loop(im, package_name, version_specifier, iterated, contents, index, modified) ==
    IF index > Len(iterated)
    THEN [contents |-> contents, modified |-> modified, crashed |-> FALSE]
    ELSE IF ~check_package_name(package_name, iterated[index])
    THEN update_loop(im, package_name, version_specifier, iterated, contents,
                     index + 1, modified)
    ELSE IF index > Len(contents)
    THEN [contents |-> contents, modified |-> modified, crashed |-> TRUE]
    ELSE LET assigned ==
                 [contents EXCEPT
                    ![index] = updated_line(package_name, version_specifier, iterated[index])]
             held == IF modified THEN iterated ELSE assigned
         IN  update_loop(im, package_name, version_specifier, held,
                         sort_after_edit(im, assigned), index + 1, TRUE)

\* The for/else of add_package: the lines are searched for the package, and
\* only when none matches is the name appended and the list sorted.
add_file(im, package_name, contents) ==
    IF \E h \in DOMAIN contents : check_package_name(package_name, contents[h])
    THEN [contents |-> contents, modified |-> FALSE, exists |-> TRUE]
    ELSE [contents |-> sort_after_edit(im, Append(contents, package_name)),
          modified |-> TRUE, exists |-> FALSE]

\* remove_package on one file: the matching lines are filtered out, the rest
\* is sorted, and the file counts as changed when the lengths differ.
remove_file(im, package_name, original_contents) ==
    LET filtered ==
            SelectSeq(original_contents,
                      LAMBDA line : ~check_package_name(package_name, line))
        updated_contents == sort_after_edit(im, filtered)
    IN  [contents |-> updated_contents,
         modified |-> Len(original_contents) # Len(updated_contents),
         exists |-> Len(filtered) # Len(original_contents)]

\* sort_requirements on one file: contents != new_contents decides.
sort_file(im, contents) ==
    LET new_contents == sort_after_edit(im, contents)
    IN  [contents |-> new_contents, modified |-> contents # new_contents,
         exists |-> FALSE]

\* A variant of the commands that writes whatever --preview says.
may_write_in_preview(prev, writable) == writable

\* Whether a changed file is written: the preview branch comes first, and
\* check_file_writable decides otherwise.
may_write(prev, writable) == ~prev /\ writable

\* What the command prints about one file.
message_of(cmd, modified, prev, writable, exists) ==
    IF ~modified
    THEN IF cmd = "sort" THEN "already sorted"
         ELSE IF cmd = "add" /\ exists THEN "already exists"
         ELSE "nothing"
    ELSE IF prev THEN "diff"
    ELSE IF ~writable THEN "read-only"
    ELSE IF cmd = "remove" THEN "Removed"
    ELSE IF cmd = "sort" THEN "Sorted"
    ELSE "Updated"

\* The effect of one pass of a command's loop over the files, given the
\* contents r the command computed for file f.
file_done(cmd, f, r, prev, writable, run, dsk) ==
    [record |-> [file |-> f, contents |-> r.contents, modified |-> r.modified,
                 run |-> run,
                 message |-> message_of(cmd, r.modified, prev, writable, r.exists),
                 wrote |-> r.modified /\ may_write(prev, writable)],
     disk |-> IF r.modified /\ may_write(prev, writable)
              THEN [dsk EXCEPT ![f] = written_text(r.contents)]
              ELSE dsk]

\* A variant of the command that goes on after a failed validation.
after_validation_ignored(raised) == "files"

\* Where update_package goes after validate_version_specifier.
after_validation(raised) == IF raised THEN "aborted" ELSE "files"

----------------------------------------------------------------------------
(* files.py: finding the requirements files.  A path is a record of        *)
(* whether it is absolute and of its parts, each part a string.            *)

Cwd == <<<<"w">>>>

requirements_txt == <<"r", "e", "q", "u", "i", "r", "e", "m", "e", "n", "t", "s", ".", "t", "x", "t">>

\* The directory names the exclusion pattern lists.
ExcludedNames ==
    {<<"v", "e", "n", "v">>, <<".", "v", "e", "n", "v">>,
     <<"v", "i", "r", "t", "u", "a", "l", "e", "n", "v">>,
     <<".", "a", "w", "s", "-", "s", "a", "m">>}

\* "/".join(parts)
RECURSIVE join_parts(_)
join_parts(parts) ==
    IF parts = <<>> THEN <<>>
    ELSE IF Len(parts) = 1 THEN Head(parts)
    ELSE Head(parts) \o <<"/">> \o join_parts(Tail(parts))

\* str(path) of a pathlib path.
path_str(path) ==
    IF path.absolute THEN <<"/">> \o join_parts(path.parts)
    ELSE IF path.parts = <<>> THEN <<".">>
    ELSE join_parts(path.parts)

\* The parts of the path from the root, relative paths being taken from the
\* working directory.
from_root(path) == IF path.absolute THEN path.parts ELSE Cwd \o path.parts

\* Whether the sequence p begins with the sequence q.
begins_with(p, q) == Len(q) <= Len(p) /\ SubSeq(p, 1, Len(q)) = q

\* path.glob("**/requirements.txt") in a tree whose one requirements.txt is
\* at `file` (parts from the root): the path followed by the parts below it.
glob(path, file) ==
    IF begins_with(file, from_root(path)) /\ Len(file) > Len(from_root(path))
    THEN {[absolute |-> path.absolute,
           parts |-> path.parts \o SubSeq(file, Len(from_root(path)) + 1, Len(file))]}
    ELSE {}

\* exclusion_pattern.search(text), the pattern being
\* [/\\](venv|\.venv|virtualenv|\.aws-sam)[/\\]
exclusion_search(text) ==
    \E name \in ExcludedNames, before \in {"/", "\\"}, after \in {"/", "\\"} :
        contains(text, <<before>> \o name \o <<after>>)

\* gather_requirements_files([path]) in that tree: the strings of the
\* validated files.  `link` says whether the file is a symlink to a regular
\* file, `still_exists` whether it exists when it is validated.
gather_requirements_files(path, file, link, still_exists) ==
    LET exists == begins_with(file, from_root(path))
        is_file == from_root(path) = file
        found_files == IF link THEN {} ELSE glob(path, file)
        requirements_files ==
            IF ~exists THEN {}
            ELSE IF is_file
            THEN IF path.parts[Len(path.parts)] = requirements_txt THEN {path} ELSE {}
            ELSE found_files
    IN  IF requirements_files = {} THEN <<>>
        ELSE LET f == CHOOSE x \in requirements_files : TRUE
             IN  IF exclusion_search(path_str(f)) THEN <<>>
                 ELSE IF ~still_exists THEN <<>>
                 ELSE <<path_str(f)>>

----------------------------------------------------------------------------
(* requirements/pypi.py: fetch_with_config.                                *)

\* if config.fallback_url and not is_404_error
fallback_allowed(fallback_url, is_404) == fallback_url # "None" /\ ~is_404

----------------------------------------------------------------------------
(* SpecSort: the sorters as functions of a line list.                      *)

S_z1 == <<"z", "=", "=", "1">>
S_a2 == <<"a", "=", "=", "2">>
S_a1 == <<"a", "=", "=", "1">>
S_B == <<"B">>
S_comment == <<"#", " ", "c">>
S_empty == <<>>
S_space == <<" ">>
S_path == <<".", "/", "p">>
S_editable == <<"-", "e", " ", ".", "/", "d">>
S_editable_name == <<"-", "e", " ", "p">>
S_url == <<"g", "i", "t", "+", "u">>
S_extras == <<"a", "[", "x", "]", " ", "#", "i">>

SortPool ==
    {S_z1, S_a2, S_a1, S_B, S_comment, S_empty, S_space, S_path, S_editable,
     S_editable_name, S_url, S_extras}

SortLocales == {"None", "C", "en_US.UTF-8", "xx_XX"}

EnvLocales == {"None", "C", "xx_XX"}

SeqsUpTo(S, n) == UNION {[1..k -> S] : k \in 0..n}

SortIdle ==
    /\ lines = <<>>
    /\ mode = "legacy"
    /\ locale_ = "None"
    /\ sorted1 = <<>>
    /\ sorted2 = <<>>
    /\ spc = "idle"
    /\ env_locale = "None"
    /\ sort_warnings = 0

MatchIdle ==
    /\ target = <<>>
    /\ req_line = <<>>
    /\ matched = FALSE
    /\ mpc = "idle"

NormIdle ==
    /\ version_token = <<>>
    /\ normalized = <<>>
    /\ invalid = FALSE
    /\ npc = "idle"

LocaleIdle ==
    /\ lc_collate = "C"
    /\ requested = "None"
    /\ current_locale = <<"None", "None">>
    /\ lpc = "idle"
    /\ prior = "C"
    /\ ended = "none"
    /\ outcome = "none"
    /\ restore_raised = FALSE
    /\ warnings = 0
    /\ acquisitions = 0
    /\ open_scopes = 0

CmdIdle ==
    /\ disk = <<>>
    /\ disk0 = <<>>
    /\ impl = "requirements/main.py"
    /\ cmd_package = <<>>
    /\ cmd_token = <<>>
    /\ preview = FALSE
    /\ queue = <<>>
    /\ processed = <<>>
    /\ cpc = "idle"
    /\ command = "none"
    /\ runs = 0

GatherIdle ==
    /\ tree_file = <<>>
    /\ is_link = FALSE
    /\ given = [absolute |-> FALSE, parts |-> <<>>]
    /\ gathered = <<>>
    /\ gpc = "idle"

FetchIdle ==
    /\ url_outcomes = <<>>
    /\ fallback_outcome = "None"
    /\ next_url = 0
    /\ is_404_error = FALSE
    /\ last_error = "None"
    /\ tried = <<>>
    /\ url_used = 0
    /\ fpc = "idle"

DetectIdle ==
    /\ host_locales = {}
    /\ detect_env = "None"
    /\ system_locale = "None"
    /\ detections = 0
    /\ default_calls = 0
    /\ returned = "None"

SortInit ==
    /\ lines \in SeqsUpTo(SortPool, MaxSortLines)
    /\ mode \in {"legacy", "section"}
    /\ locale_ \in SortLocales
    /\ mode = "legacy" => locale_ = "None"
    /\ env_locale \in EnvLocales
    /\ (mode = "legacy" \/ locale_ # "None") => env_locale = "None"
    /\ sort_warnings = 0
    /\ sorted1 = <<>>
    /\ sorted2 = <<>>
    /\ spc = "init"
    /\ MatchIdle
    /\ NormIdle
    /\ LocaleIdle
    /\ CmdIdle
    /\ DetectIdle
    /\ GatherIdle
    /\ FetchIdle

SortOnce ==
    /\ spc = "init"
    /\ sorted1' = sort(mode, lines, locale_, env_locale)
    /\ sort_warnings' = sort_warnings + sort_echoes(mode, lines, locale_, env_locale)
    /\ spc' = "once"
    /\ UNCHANGED <<lines, mode, locale_, env_locale, sorted2, matchVars, normVars, localeVars, cmdVars,
                   detectVars, gatherVars, fetchVars>>

SortAgain ==
    /\ spc = "once"
    /\ sorted2' = sort(mode, sorted1, locale_, env_locale)
    /\ sort_warnings' = sort_warnings + sort_echoes(mode, sorted1, locale_, env_locale)
    /\ spc' = "twice"
    /\ UNCHANGED <<lines, mode, locale_, env_locale, sorted1, matchVars, normVars, localeVars, cmdVars,
                   detectVars, gatherVars, fetchVars>>

SortNext == SortOnce \/ SortAgain

SpecSort == SortInit /\ [][SortNext]_vars

----------------------------------------------------------------------------
(* SpecMatch: check_package_name on a target and a line.                   *)

Words == {<<"a">>, <<"B">>}

Separators == {"-", "_"}

\* The names of k words joined by separators.
RECURSIVE NamesOf(_)
NamesOf(k) ==
    IF k <= 1 THEN Words
    ELSE {n \o <<sep>> \o w : n \in NamesOf(k - 1), sep \in Separators, w \in Words}

MatchNames == UNION {NamesOf(k) : k \in 1..MaxNameParts}

PartsOf(n) == (Len(n) + 1) \div 2

PlainSuffixes ==
    {<<>>, <<"=", "=", "1">>, <<"[", "x", "]">>, <<"[", "x", "]", ">", "=", "1">>}

CommentTexts == {<<"#">> \o w : w \in Words} \cup {<<"#", " ">> \o w : w \in Words}

CommentLines == CommentTexts \cup {<<" ">> \o c \o <<" ">> : c \in CommentTexts}

\* URL lines from which no name can be extracted.
UnmatchableUrlLines ==
    { <<"g", "i", "t", "+", "u">>,
      <<"h", "t", "t", "p", "s", ":", "/", "/", "h", "/", "a">>,
      <<"h", "t", "t", "p", "s", ":", "/", "/", "g", "i", "t", "h", "u", "b", ".", "c", "o", "m", "/">>,
      <<"g", "i", "t", "+", "u", "#", "e", "g", "g", "=">> }

\* Lines that are no requirement of any kind.
MalformedLines ==
    { <<"=", "=">>,
      <<"=">>,
      <<"[">>,
      <<"]">>,
      <<"-", "e">>,
      <<".", "/">>,
      <<".", ".", "/">>,
      <<" ", "@", " ">>,
      <<"a", " ", "@", " ">>,
      <<"<">>,
      <<"~">>,
      <<",">>,
      <<"-", "e", " ", "g", "i", "t", "+", "u">>,
      <<"[", "a", "]", "=", "=">>,
      <<"a", "=", "=", "[">>,
      <<"a", "[">>,
      <<"#", "e", "g", "g", "=", "a">> }

UrlTexts == {<<"g", "i", "t", "+", "u">>}

MatchTargets == MatchNames \cup CommentTexts \cup UrlTexts

InlineComments == {<<>>, <<" ", "#", " ", "c">>}

PlainLinesFor(t) ==
    IF t \in MatchNames
    THEN {n \o sfx \o ic : n \in NamesOf(PartsOf(t)), sfx \in PlainSuffixes, ic \in InlineComments}
    ELSE {w \o sfx \o ic : w \in Words, sfx \in PlainSuffixes, ic \in InlineComments}

UrlSchemes ==
    { <<"g", "i", "t", "+", "h", "t", "t", "p", "s", ":", "/", "/">>,
      <<"h", "t", "t", "p", "s", ":", "/", "/">>,
      <<"g", "i", "t", "+", "s", "s", "h", ":", "/", "/", "g", "i", "t", "@">> }

UrlHosts == {HostGithub, HostGitlab}

UrlRepoSuffixes == {<<>>, <<".", "g", "i", "t">>}

UrlRefs == {<<>>, <<"@", "1">>, <<"#", "x">>}

\* URL lines for a repository of a one-word name under the user "u".
HostedUrlLines ==
    {scheme \o host \o <<"/", "u", "/">> \o w \o sfx \o ref :
        scheme \in UrlSchemes, host \in UrlHosts, w \in Words,
        sfx \in UrlRepoSuffixes, ref \in UrlRefs}

UrlBases == {<<"g", "i", "t", "+", "u">>, <<"h", "t", "t", "p", "s", ":", "/", "/", "h", "/", "B">>}

EggMarkers == {EggMarker, <<"#", "E", "g", "g", "=">>}

EggTails == {<<>>, <<"&", "s", "=", "1">>, <<"#", "x">>, <<" ">>}

\* URL lines that carry an egg fragment naming n.
EggLinesFor(t) ==
    IF t \in MatchNames
    THEN {base \o egg \o n \o tail :
             base \in UrlBases, egg \in EggMarkers, n \in NamesOf(PartsOf(t)),
             tail \in EggTails}
    ELSE {}

PathPrefixes == {<<".", "/">>, <<".", ".", "/">>, <<".", "/", "a", "/">>}

PathSuffixes == {<<>>, <<"1">>}

\* Local path lines whose final segment is a name, alone or followed by "1".
PathLinesFor(t) ==
    IF t \in MatchNames
    THEN {pre \o n \o sfx :
             pre \in PathPrefixes, n \in NamesOf(PartsOf(t)) \cup NamesOf(2),
             sfx \in PathSuffixes}
    ELSE {}

MatchInit ==
    /\ target \in MatchTargets
    /\ req_line \in PlainLinesFor(target) \cup CommentLines \cup HostedUrlLines
                      \cup EggLinesFor(target) \cup PathLinesFor(target)
                      \cup UnmatchableUrlLines \cup MalformedLines
    /\ matched = FALSE
    /\ mpc = "init"
    /\ SortIdle
    /\ NormIdle
    /\ LocaleIdle
    /\ CmdIdle
    /\ DetectIdle
    /\ GatherIdle
    /\ FetchIdle

Match ==
    /\ mpc = "init"
    /\ matched' = check_package_name(target, req_line)
    /\ mpc' = "done"
    /\ UNCHANGED <<target, req_line, sortVars, normVars, localeVars, cmdVars, detectVars,
                   gatherVars, fetchVars>>

MatchNext == Match

SpecMatch == MatchInit /\ [][MatchNext]_vars

----------------------------------------------------------------------------
(* SpecNorm: validate_version_specifier on a raw version token.            *)

TokenChars == {"=", ">", "<", "~", "!", "1", ".", ","}

NormInit ==
    /\ version_token \in SeqsUpTo(TokenChars, MaxTokenLen)
    /\ normalized = <<>>
    /\ invalid = FALSE
    /\ npc = "init"
    /\ SortIdle
    /\ MatchIdle
    /\ LocaleIdle
    /\ CmdIdle
    /\ DetectIdle
    /\ GatherIdle
    /\ FetchIdle

Normalize ==
    /\ npc = "init"
    /\ normalized' = validate_version_specifier(version_token).value
    /\ invalid' = validate_version_specifier(version_token).raised
    /\ npc' = "done"
    /\ UNCHANGED <<version_token, sortVars, matchVars, localeVars, cmdVars, detectVars,
                   gatherVars, fetchVars>>

NormNext == Normalize

SpecNorm == NormInit /\ [][NormNext]_vars

----------------------------------------------------------------------------
(* SpecLocale: set_locale scopes opened and closed one after another.      *)

LocaleArgs == {"None", "C", "en_US.UTF-8", "xx_XX"}

RaisedInScope == {"locale.Error", "other"}

LocaleInit ==
    /\ lc_collate \in AvailableLocales
    /\ requested = "None"
    /\ current_locale = <<"None", "None">>
    /\ lpc = "idle"
    /\ prior = lc_collate
    /\ ended = "none"
    /\ outcome = "none"
    /\ restore_raised = FALSE
    /\ warnings = 0
    /\ acquisitions = 0
    /\ open_scopes = 0
    /\ SortIdle
    /\ MatchIdle
    /\ NormIdle
    /\ CmdIdle
    /\ DetectIdle
    /\ GatherIdle
    /\ FetchIdle

\* A variant in which the block under `with set_locale(...)` sorts again.
may_acquire_reentrant(pc) == TRUE

\* Whether control can reach a set_locale call: the blocks under
\* `with set_locale(...)` call sorted() only, so no scope is open then.
may_acquire(pc) == pc = "idle"

\* set_locale(None): the basic comparison is yielded and nothing is bound.
EnterNone ==
    /\ may_acquire(lpc)
    /\ open_scopes' = open_scopes + 1
    /\ acquisitions < MaxAcquisitions
    /\ requested' = "None"
    /\ prior' = lc_collate
    /\ lpc' = "plain"
    /\ outcome' = "plain"
    /\ ended' = "none"
    /\ restore_raised' = FALSE
    /\ acquisitions' = acquisitions + 1
    /\ UNCHANGED <<lc_collate, current_locale, warnings, sortVars, matchVars, normVars, cmdVars,
                   detectVars, gatherVars, fetchVars>>

\* set_locale(name) where setlocale accepts the name: strcoll is yielded.
EnterBound ==
    /\ may_acquire(lpc)
    /\ open_scopes' = open_scopes + 1
    /\ acquisitions < MaxAcquisitions
    /\ \E name \in LocaleArgs \ {"None"} :
        /\ name \in AvailableLocales
        /\ requested' = name
        /\ lc_collate' = name
    /\ prior' = lc_collate
    /\ current_locale' = getlocale(lc_collate)
    /\ lpc' = "strcoll"
    /\ outcome' = "bound"
    /\ ended' = "none"
    /\ restore_raised' = FALSE
    /\ acquisitions' = acquisitions + 1
    /\ UNCHANGED <<warnings, sortVars, matchVars, normVars, cmdVars, detectVars, gatherVars,
                   fetchVars>>

\* set_locale(name) where setlocale raises: a warning is echoed and the basic
\* comparison is yielded from the except clause.
EnterUnavailable ==
    /\ may_acquire(lpc)
    /\ open_scopes' = open_scopes + 1
    /\ acquisitions < MaxAcquisitions
    /\ \E name \in LocaleArgs \ {"None"} :
        /\ name \notin AvailableLocales
        /\ requested' = name
    /\ prior' = lc_collate
    /\ current_locale' = getlocale(lc_collate)
    /\ lpc' = "fallback"
    /\ outcome' = "unavailable"
    /\ ended' = "none"
    /\ restore_raised' = FALSE
    /\ warnings' = warnings + 1
    /\ acquisitions' = acquisitions + 1
    /\ UNCHANGED <<lc_collate, sortVars, matchVars, normVars, cmdVars, detectVars, gatherVars,
                   fetchVars>>

\* The with block ends or raises after set_locale(None): the generator
\* returns without touching the locale.
ExitPlain ==
    /\ lpc = "plain"
    /\ open_scopes' = open_scopes - 1
    /\ \E how \in {"normal", "exception"} : ended' = how
    /\ lpc' = "idle"
    /\ UNCHANGED <<lc_collate, requested, current_locale, prior, outcome,
                   restore_raised, warnings, acquisitions, sortVars, matchVars, normVars, cmdVars,
                   detectVars, gatherVars, fetchVars>>

\* The with block ends normally: the finally clause restores.
ExitNormal ==
    /\ lpc \in {"strcoll", "fallback"}
    /\ open_scopes' = open_scopes - 1
    /\ \E raises \in {FALSE, restore_may_raise(current_locale)} :
        /\ lc_collate' = after_finally(lc_collate, current_locale, raises)
        /\ restore_raised' = raises
    /\ ended' = "normal"
    /\ lpc' = "idle"
    /\ UNCHANGED <<requested, current_locale, prior, outcome, warnings,
                   acquisitions, sortVars, matchVars, normVars, cmdVars,
                   detectVars, gatherVars, fetchVars>>

\* The with block raises.  A locale.Error or OSError thrown in at the first
\* yield is caught by the except clause, which warns and yields again, so
\* the caller gets a RuntimeError; anything else propagates.  The finally
\* clause restores either way.
ExitException ==
    /\ lpc \in {"strcoll", "fallback"}
    /\ open_scopes' = open_scopes - 1
    /\ \E kind \in RaisedInScope :
        warnings' = IF lpc = "strcoll" /\ kind = "locale.Error"
                    THEN warnings + 1
                    ELSE warnings
    /\ \E raises \in {FALSE, restore_may_raise(current_locale)} :
        /\ lc_collate' = after_finally(lc_collate, current_locale, raises)
        /\ restore_raised' = raises
    /\ ended' = "exception"
    /\ lpc' = "idle"
    /\ UNCHANGED <<requested, current_locale, prior, outcome, acquisitions,
                   sortVars, matchVars, normVars, cmdVars, detectVars,
                   gatherVars, fetchVars>>

LocaleNext ==
    \/ EnterNone
    \/ EnterBound
    \/ EnterUnavailable
    \/ ExitPlain
    \/ ExitNormal
    \/ ExitException

SpecLocale == LocaleInit /\ [][LocaleNext]_vars

----------------------------------------------------------------------------
(* SpecDetect: successive calls of get_default_locale in one process.      *)

HostLocaleNames == {"C", "C.UTF-8", "en_US.UTF-8", "xx_XX.UTF-8"}

DetectEnvs == {"None", "C", "en_US", "xx_XX"}

DetectInit ==
    /\ host_locales \in SUBSET HostLocaleNames
    /\ detect_env \in DetectEnvs
    /\ system_locale = "None"
    /\ detections = 0
    /\ default_calls = 0
    /\ returned = "None"
    /\ SortIdle
    /\ MatchIdle
    /\ NormIdle
    /\ LocaleIdle
    /\ CmdIdle
    /\ GatherIdle
    /\ FetchIdle

GetDefaultLocale ==
    /\ default_calls < MaxDefaultCalls
    /\ LET r == get_default_locale(system_locale, detect_env, host_locales)
       IN  /\ returned' = r.value
           /\ system_locale' = r.cache
           /\ detections' = IF r.detected THEN detections + 1 ELSE detections
    /\ default_calls' = default_calls + 1
    /\ UNCHANGED <<host_locales, detect_env, sortVars, matchVars, normVars, localeVars, cmdVars,
                   gatherVars, fetchVars>>

DetectNext == GetDefaultLocale

SpecDetect == DetectInit /\ [][DetectNext]_vars

----------------------------------------------------------------------------
(* SpecCmd: one run of update, add, remove or sort over two requirements   *)
(* files, and a second run of sort over the files the first one left.      *)

F_a1 == <<"a", "=", "=", "1">>
F_a2i == <<"a", "=", "=", "2", " ", "#", "i">>
F_z == <<"z">>
F_comment == <<"#", " ", "c">>
F_empty == <<>>
F_mixed == <<"a", "_", "b", "-", "c">>

FilePool == {F_a1, F_a2i, F_z, F_comment, F_empty}

\* The lines of the files the add command meets.
AddFilePool == {F_a1, F_mixed, F_z, F_comment}

CmdPackages == {<<"a">>}

AddPackages == {<<"A">>, <<"a", "-", "b", "_", "c">>}

CmdTokens == {<<"3">>, <<"x">>}

Commands == {"update", "add", "remove", "sort"}

\* The text of a file holding the lines ls, each ended by a newline.
file_text(ls) == IF ls = <<>> THEN <<>> ELSE join_lines(ls) \o <<"\n">>

CmdInit ==
    /\ command \in Commands
    /\ \E all \in SeqsUpTo(IF command = "add" THEN AddFilePool ELSE FilePool,
                           MaxFileLines) :
        \E cut \in 0..Len(all) :
            disk = <<file_text(slice(all, 1, cut)), file_text(slice(all, cut + 1, Len(all)))>>
    /\ disk0 = disk
    /\ impl \in {"requirements/main.py", "main.py"}
    /\ cmd_package \in IF command = "add" THEN AddPackages
                       ELSE IF command = "sort" THEN {<<>>}
                       ELSE CmdPackages
    /\ cmd_token \in IF command = "update" THEN CmdTokens ELSE {<<>>}
    /\ preview \in BOOLEAN
    /\ queue = <<1, 2>>
    /\ processed = <<>>
    /\ cpc = IF command = "update" THEN "start" ELSE "files"
    /\ runs = 1
    /\ SortIdle
    /\ MatchIdle
    /\ NormIdle
    /\ LocaleIdle
    /\ DetectIdle
    /\ GatherIdle
    /\ FetchIdle

\* update_package up to the loop over the files.
UpdateValidate ==
    /\ command = "update"
    /\ cpc = "start"
    /\ cpc' = after_validation(validate_version_specifier(cmd_token).raised)
    /\ UNCHANGED <<disk, disk0, impl, cmd_package, cmd_token, preview, queue, processed,
                   command, runs,
                   sortVars, matchVars, normVars, localeVars, detectVars,
                   gatherVars, fetchVars>>

\* One pass of update_package's loop over the gathered files.
UpdateFile ==
    /\ command = "update"
    /\ cpc = "files"
    /\ queue # <<>>
    /\ LET f == Head(queue)
           original_contents == splitlines(disk[f])
           r == update_loop(impl, cmd_package, validate_version_specifier(cmd_token).value,
                            original_contents, original_contents, 1, FALSE)
       IN  IF r.crashed
           THEN /\ cpc' = "crashed"
                /\ UNCHANGED <<disk, processed>>
           ELSE /\ \E writable \in BOOLEAN :
                       LET d == file_done(command, f,
                                          [contents |-> r.contents,
                                           modified |-> r.modified, exists |-> r.modified],
                                          preview, writable, runs, disk)
                       IN  /\ processed' = Append(processed, d.record)
                           /\ disk' = d.disk
                /\ cpc' = IF Tail(queue) = <<>> THEN "done" ELSE "files"
    /\ queue' = Tail(queue)
    /\ UNCHANGED <<disk0, impl, cmd_package, cmd_token, preview, command, runs,
                   sortVars, matchVars, normVars, localeVars, detectVars,
                   gatherVars, fetchVars>>

\* One pass of the loop over the files of add, remove or sort, r being the
\* result of the command's computation on the file at the head of the queue.
FilePass(r) ==
    /\ cpc = "files"
    /\ queue # <<>>
    /\ \E writable \in BOOLEAN :
           LET d == file_done(command, Head(queue), r, preview, writable, runs, disk)
           IN  /\ processed' = Append(processed, d.record)
               /\ disk' = d.disk
    /\ cpc' = IF Tail(queue) = <<>> THEN "done" ELSE "files"
    /\ queue' = Tail(queue)
    /\ UNCHANGED <<disk0, impl, cmd_package, cmd_token, preview, command, runs,
                   sortVars, matchVars, normVars, localeVars, detectVars,
                   gatherVars, fetchVars>>

\* One pass of add_package's loop over the gathered files.
AddFile ==
    /\ command = "add"
    /\ queue # <<>>
    /\ FilePass(add_file(impl, cmd_package, splitlines(disk[Head(queue)])))

\* One pass of remove_package's loop over the gathered files.
RemoveFile ==
    /\ command = "remove"
    /\ queue # <<>>
    /\ FilePass(remove_file(impl, cmd_package, splitlines(disk[Head(queue)])))

\* One pass of sort_requirements' loop over the gathered files.
SortFile ==
    /\ command = "sort"
    /\ queue # <<>>
    /\ FilePass(sort_file(impl, splitlines(disk[Head(queue)])))

\* The sort command is invoked again on the files the last run left.
SortCommandAgain ==
    /\ command = "sort"
    /\ cpc = "done"
    /\ runs < MaxRuns
    /\ runs' = runs + 1
    /\ queue' = <<1, 2>>
    /\ cpc' = "files"
    /\ UNCHANGED <<disk, disk0, impl, cmd_package, cmd_token, preview, processed, command,
                   sortVars, matchVars, normVars, localeVars, detectVars,
                   gatherVars, fetchVars>>

CmdNext ==
    \/ UpdateValidate
    \/ UpdateFile
    \/ AddFile
    \/ RemoveFile
    \/ SortFile
    \/ SortCommandAgain

SpecCmd == CmdInit /\ [][CmdNext]_vars

----------------------------------------------------------------------------
(* SpecGather: one call of gather_requirements_files on one search path,   *)
(* in a tree that holds one requirements.txt below the working directory.  *)

DirNames == ExcludedNames \cup {<<"p">>, <<"v", "e", "n", "v", "s">>}

\* The search paths: the directories above the file, the file itself, and a
\* path that does not exist.
SearchParts(dir) ==
    {SubSeq(dir, 1, k) : k \in 0..Len(dir)}
        \cup {dir \o <<requirements_txt>>, <<<<"q">>>>}

GatherInit ==
    /\ tree_file \in SeqsUpTo(DirNames, MaxDepth)
    /\ is_link \in BOOLEAN
    /\ \E parts \in SearchParts(tree_file), absolute \in BOOLEAN :
           given = [absolute |-> absolute,
                    parts |-> IF absolute THEN Cwd \o parts ELSE parts]
    /\ gathered = <<>>
    /\ gpc = "start"
    /\ SortIdle
    /\ MatchIdle
    /\ NormIdle
    /\ LocaleIdle
    /\ CmdIdle
    /\ DetectIdle
    /\ FetchIdle

\* gather_requirements_files(resolve_paths((given,)))
Gather ==
    /\ gpc = "start"
    /\ \E still_exists \in BOOLEAN :
           gathered' = gather_requirements_files(
                           given, Cwd \o tree_file \o <<requirements_txt>>,
                           is_link, still_exists)
    /\ gpc' = "done"
    /\ UNCHANGED <<tree_file, is_link, given,
                   sortVars, matchVars, normVars, localeVars, cmdVars, detectVars,
                   fetchVars>>

GatherNext == Gather

SpecGather == GatherInit /\ [][GatherNext]_vars

----------------------------------------------------------------------------
(* SpecFetch: one call of fetch_with_config; URLs are named by their       *)
(* position in urls_to_try, the fallback URL by the position after them.   *)

FetchOutcomes == {"ok", "404", "500", "URLError"}

FetchInit ==
    /\ \E n \in 1..MaxUrls : url_outcomes \in [1..n -> FetchOutcomes]
    /\ fallback_outcome \in FetchOutcomes \cup {"None"}
    /\ next_url = 1
    /\ is_404_error = FALSE
    /\ last_error = "None"
    /\ tried = <<>>
    /\ url_used = 0
    /\ fpc = "loop"
    /\ SortIdle
    /\ MatchIdle
    /\ NormIdle
    /\ LocaleIdle
    /\ CmdIdle
    /\ DetectIdle
    /\ GatherIdle

\* One pass of `for url in urls_to_try`.
FetchUrl ==
    /\ fpc = "loop"
    /\ next_url <= Len(url_outcomes)
    /\ tried' = Append(tried, next_url)
    /\ IF url_outcomes[next_url] = "ok"
       THEN /\ url_used' = next_url
            /\ fpc' = "returned"
            /\ UNCHANGED <<next_url, is_404_error, last_error>>
       ELSE /\ last_error' = url_outcomes[next_url]
            /\ is_404_error' = (is_404_error \/ url_outcomes[next_url] = "404")
            /\ next_url' = next_url + 1
            /\ UNCHANGED <<url_used, fpc>>
    /\ UNCHANGED <<url_outcomes, fallback_outcome,
                   sortVars, matchVars, normVars, localeVars, cmdVars, detectVars,
                   gatherVars>>

\* The rest of fetch_with_config once the loop has run out of URLs.
FetchFallback ==
    /\ fpc = "loop"
    /\ next_url > Len(url_outcomes)
    /\ IF fallback_allowed(fallback_outcome, is_404_error)
       THEN /\ tried' = Append(tried, Len(url_outcomes) + 1)
            /\ IF fallback_outcome = "ok"
               THEN /\ url_used' = Len(url_outcomes) + 1
                    /\ fpc' = "returned"
                    /\ UNCHANGED last_error
               ELSE /\ last_error' = fallback_outcome
                    /\ fpc' = "raised"
                    /\ UNCHANGED url_used
       ELSE /\ fpc' = "raised"
            /\ UNCHANGED <<tried, url_used, last_error>>
    /\ UNCHANGED <<url_outcomes, fallback_outcome, next_url, is_404_error,
                   sortVars, matchVars, normVars, localeVars, cmdVars, detectVars,
                   gatherVars>>

FetchNext == FetchUrl \/ FetchFallback

SpecFetch == FetchInit /\ [][FetchNext]_vars

----------------------------------------------------------------------------
(* The claims.                                                             *)

\* C1: in section mode and in legacy mode alike, sorting the output of sort
\* again returns the same list: sort(sort(L)) = sort(L).
C1_Idempotent == spc = "twice" => sorted2 = sorted1

\* A run whose first sort reordered lines that tie on their key, and whose
\* second sort has been applied.
C1_Witness ==
    /\ spc = "twice"
    /\ sorted1 # lines
    /\ \E i, j \in DOMAIN sorted1 : i < j /\ sorted1[i] = S_a2 /\ sorted1[j] = S_a1

----------------------------------------------------------------------------
----------------------------------------------------------------------------
\* C4: a plain requirement line whose name part equals the target after
\* lower-casing and treating "-" and "_" as one character matches the target,
\* whatever mix of separators the target contains.
C4_Canonical(n) == replace(lower(n), "_", "-")

C4_SeparatorEquivalence ==
    mpc = "done" =>
        \A n \in MatchNames, sfx \in PlainSuffixes :
            (req_line = n \o sfx /\ C4_Canonical(n) = C4_Canonical(target)) => matched

----------------------------------------------------------------------------
\* C5: for every target string, a line whose trimmed text starts with "#" is
\* not matched.
C5_CommentNeverMatches ==
    (mpc = "done" /\ startswith(strip(req_line), <<"#">>)) => matched = FALSE

----------------------------------------------------------------------------
\* C6: in section mode each blank-line-delimited section is output as its
\* standalone comment lines in their original order followed by its entry
\* lines in sorted order, and no line moves into a different section.
C6_Blank(l) == \A k \in DOMAIN l : l[k] = " "

C6_Comment(l) == \E k \in DOMAIN l : l[k] = "#" /\ \A h \in 1..(k - 1) : l[h] = " "

\* The maximal runs of non-blank lines, as pairs of positions.
C6_Runs(ls) ==
    {r \in (DOMAIN ls) \X (DOMAIN ls) :
        /\ r[1] <= r[2]
        /\ \A k \in r[1]..r[2] : ~C6_Blank(ls[k])
        /\ (r[1] = 1 \/ C6_Blank(ls[r[1] - 1]))
        /\ (r[2] = Len(ls) \/ C6_Blank(ls[r[2] + 1]))}

C6_Section(ls, i) ==
    LET r == CHOOSE r \in C6_Runs(ls) :
                 Cardinality({q \in C6_Runs(ls) : q[1] < r[1]}) = i - 1
    IN  SubSeq(ls, r[1], r[2])

C6_Count(ls, l) == Cardinality({k \in DOMAIN ls : ls[k] = l})

C6_SectionSorted(before, after, loc) ==
    LET ncomments == Cardinality({k \in DOMAIN before : C6_Comment(before[k])})
    IN  /\ Len(after) = Len(before)
        /\ \A l \in {before[k] : k \in DOMAIN before} : C6_Count(after, l) = C6_Count(before, l)
        /\ slice(after, 1, ncomments) = SelectSeq(before, C6_Comment)
        /\ \A k \in (ncomments + 1)..(Len(after) - 1) :
               compare(yielded_comparator(loc), section_sort_key(after[k]),
                       section_sort_key(after[k + 1])) <= 0

C6_SectionsSortedInPlace ==
    (spc = "once" /\ mode = "section") =>
        /\ Cardinality(C6_Runs(sorted1)) = Cardinality(C6_Runs(lines))
        /\ \A i \in 1..Cardinality(C6_Runs(lines)) :
               C6_SectionSorted(C6_Section(lines, i), C6_Section(sorted1, i),
                                effective_locale(locale_, env_locale))

\* A section whose comment followed its entries and whose entries were out of
\* order has been sorted.
C6_Witness ==
    /\ spc = "once"
    /\ mode = "section"
    /\ lines = <<S_z1, S_comment, S_a1>>
    /\ sorted1 = <<S_comment, S_a1, S_z1>>

----------------------------------------------------------------------------
\* C7: in legacy mode every local-path, VCS/URL and editable ("-e ...") line
\* appears after all ordinary entries in the output, and these lines keep
\* their original relative order.
C7_Kept(l) == ~C6_Blank(l) /\ ~C6_Comment(l)

C7_LocalPath(l) ==
    startswith(lower(strip(l)), <<".", "/">>) \/ startswith(lower(strip(l)), <<".", ".", "/">>)

C7_Editable(l) == startswith(lower(strip(l)), <<"-", "e", " ">>)

C7_Reference(l) == C7_LocalPath(l) \/ is_url_requirement(l) \/ C7_Editable(l)

C7_ReferencesLast ==
    (spc = "once" /\ mode = "legacy") =>
        /\ \A i, j \in DOMAIN sorted1 :
               (i < j /\ C7_Reference(sorted1[i])) => C7_Reference(sorted1[j])
        /\ SelectSeq(sorted1, C7_Reference)
               = SelectSeq(SelectSeq(lines, C7_Kept), C7_Reference)

\* C7 as amended: the lines deferred are those whose trimmed, lower-cased
\* text starts with "./" or "../", or starts with "-e " and contains "/";
\* they follow every other entry and keep their original relative order.
C7_Deferred(l) ==
    \/ C7_LocalPath(l)
    \/ (C7_Editable(l) /\ \E k \in DOMAIN l : l[k] = "/")

C7_PathReferencesLast ==
    (spc = "once" /\ mode = "legacy") =>
        /\ \A i, j \in DOMAIN sorted1 :
               (i < j /\ C7_Deferred(sorted1[i])) => C7_Deferred(sorted1[j])
        /\ SelectSeq(sorted1, C7_Deferred)
               = SelectSeq(SelectSeq(lines, C7_Kept), C7_Deferred)

\* An editable line and a local path that preceded an ordinary entry follow
\* it in the output, in their original order.
C7_Witness ==
    /\ spc = "once"
    /\ mode = "legacy"
    /\ lines = <<S_editable, S_path, S_z1>>
    /\ sorted1 = <<S_z1, S_editable, S_path>>

----------------------------------------------------------------------------
\* C8: in legacy mode the output is a permutation of exactly those input
\* lines that are neither blank nor standalone comments, each verbatim.
C8_KeptLinesPermuted ==
    (spc = "once" /\ mode = "legacy") =>
        /\ \A k \in DOMAIN sorted1 : \E h \in DOMAIN lines : sorted1[k] = lines[h]
        /\ \A h \in DOMAIN lines :
               C6_Count(sorted1, lines[h])
                   = IF C7_Kept(lines[h]) THEN C6_Count(lines, lines[h]) ELSE 0

\* A comment and a blank line were dropped and a line with extras and an
\* inline comment was copied.
C8_Witness ==
    /\ spc = "once"
    /\ mode = "legacy"
    /\ \E h \in DOMAIN lines : lines[h] = S_comment
    /\ \E h \in DOMAIN lines : lines[h] = S_space
    /\ sorted1 = <<S_extras>>

----------------------------------------------------------------------------
\* C9: normalize(spec) returns spec unchanged when it starts with one of
\* ==, !=, >=, <=, >, <, ~= and otherwise "==" followed by spec; it fails
\* exactly when the resulting string is rejected by the specifier grammar.
C9_StartsWithOperator(t) ==
    \/ Len(t) >= 1 /\ t[1] \in {">", "<"}
    \/ Len(t) >= 2 /\ t[2] = "=" /\ t[1] \in {"=", "!", "~"}

C9_Normalized ==
    npc = "done" =>
        /\ normalized = IF C9_StartsWithOperator(version_token)
                        THEN version_token
                        ELSE <<"=", "=">> \o version_token
        /\ invalid = ~SpecifierSet(normalized)

\* A bare version got the "==" default and passed validation.
C9_Witness ==
    /\ npc = "done"
    /\ version_token = <<"1", ".", "1">>
    /\ normalized = <<"=", "=", "1", ".", "1">>
    /\ ~invalid

----------------------------------------------------------------------------
\* C3: after update processes a file, every entry line of that file that does
\* not match the target package is still present verbatim in the result,
\* however many lines of the file match the target.
C3_NonMatchingLinesKept ==
    command = "update" => \A p \in DOMAIN processed :
        LET before == splitlines(disk0[processed[p].file])
            after == processed[p].contents
        IN  \A h \in DOMAIN before :
                (C7_Kept(before[h]) /\ ~check_package_name(cmd_package, before[h]))
                    => C6_Count(after, before[h]) >= C6_Count(before, before[h])

----------------------------------------------------------------------------
\* C10: when update is given a version token that fails validation, the
\* command aborts and every file's content after the command equals its
\* content before.
C10_InvalidTokenAborts ==
    (command = "update" /\ validate_version_specifier(cmd_token).raised) =>
        /\ cpc \in {"idle", "start", "aborted"}
        /\ disk = disk0

\* The command was aborted although a file holds a line the update would
\* have rewritten.
C10_Witness ==
    /\ cpc = "aborted"
    /\ ~preview
    /\ \E f \in DOMAIN disk : \E h \in DOMAIN splitlines(disk[f]) :
           check_package_name(cmd_package, splitlines(disk[f])[h])

----------------------------------------------------------------------------
\* C11: sorting with a requested locale that cannot be bound never raises,
\* and its result equals the result of sorting the same input lines with
\* byte-order (code point) comparison.
C11_Unbindable == locale_ # "None" /\ locale_ \notin AvailableLocales

----------------------------------------------------------------------------
\* C12: matching ignores inline comment text: for every target t and every
\* entry line l, with or without a version specifier, t matches l followed by
\* whitespace and a trailing "# ..." comment exactly when t matches l.
C12_InlineCommentIgnored ==
    mpc = "done" =>
        \A l \in PlainLinesFor(target), ic \in InlineComments \ {<<>>} :
            (~contains(l, <<"#">>) /\ req_line = l \o ic) =>
                matched = check_package_name(target, l)

----------------------------------------------------------------------------
\* C13: for every github.com or gitlab.com URL line without an egg fragment
\* and without " @ ", whatever its scheme, the extracted name is the last
\* path segment of the URL with a trailing ".git" removed and with everything
\* from "@" or "#" onward removed.
C13_UpToRef(s) == split_first(split_first(s, <<"@">>), <<"#">>)

C13_WithoutGit(s) ==
    IF Len(s) >= 4 /\ slice(s, Len(s) - 3, Len(s)) = <<".", "g", "i", "t">>
    THEN slice(s, 1, Len(s) - 4)
    ELSE s

C13_LastSegment(l) == lower(C13_WithoutGit(C13_UpToRef(split_last(strip(l), <<"/">>))))

C13_RepositoryNameExtracted ==
    (mpc = "done" /\ req_line \in HostedUrlLines) =>
        /\ extract_package_from_url(req_line) = Some(C13_LastSegment(req_line))
        /\ matched = (C4_Canonical(target) = C4_Canonical(C13_LastSegment(req_line)))

----------------------------------------------------------------------------
\* C14: for a URL/VCS line containing "#egg=<name>", the target matches the
\* line exactly when the target and <name>, the text after "egg=" up to the
\* next "&" or "#", are equal after lower-casing and collapsing "_" and "-"
\* to one form.
C14_EggName(l) ==
    LET at == {k \in DOMAIN l : lower(slice(l, k, k + 4)) = EggMarker}
        k == CHOOSE k \in at : \A h \in at : h <= k
        rest == slice(l, k + 5, Len(l))
        stops == {h \in DOMAIN rest : rest[h] \in {"&", "#"}}
    IN  IF stops = {} THEN rest
        ELSE slice(rest, 1, (CHOOSE h \in stops : \A g \in stops : h <= g) - 1)

C14_EggLine(l) == is_url_requirement(l) /\ contains(lower(l), EggMarker)

----------------------------------------------------------------------------
\* C15: for a line that starts with "./" or "../", the target matches the
\* line exactly when the lower-cased, separator-normalized target is a
\* substring of the line's final path segment.
C15_FinalSegment(l) == split_last(strip(l), <<"/">>)

C15_PathSubstring ==
    (mpc = "done" /\ target \in MatchNames /\ C7_LocalPath(req_line)) =>
        matched = contains(C4_Canonical(C15_FinalSegment(req_line)), C4_Canonical(target))

----------------------------------------------------------------------------
\* C16: for every package name n, every extras list e and every optional
\* version specifier s, n matches the line n[e]s: extras on a line do not
\* affect whether it matches the base package name.
C16_ExtrasSuffixes == {sfx \in PlainSuffixes : startswith(sfx, <<"[">>)}

C16_ExtrasTransparent ==
    (mpc = "done" /\ target \in MatchNames) =>
        \A sfx \in C16_ExtrasSuffixes : req_line = target \o sfx => matched

----------------------------------------------------------------------------
\* C17: matching and sorting are total: for every target string and every
\* line or list of lines, however malformed, the matcher returns true or
\* false and the sorter returns a list, without raising; in particular a
\* URL/VCS line with no extractable name yields no match.
C17_ReturnsBoolean == matched \in BOOLEAN

C17_ReturnsList(out, in) ==
    /\ Len(out) <= Len(in)
    /\ \A k \in DOMAIN out : out[k] = <<>> \/ \E h \in DOMAIN in : out[k] = in[h]

C17_SortersReturnLists ==
    req_line \in MalformedLines \cup UnmatchableUrlLines =>
    /\ C17_ReturnsList(sort_packages(<<req_line, target>>), <<req_line, target>>)
    /\ \A loc \in SortLocales :
           C17_ReturnsList(sort_with_comment_preservation(<<req_line, target>>, loc),
                           <<req_line, target>>)

C17_Total ==
    mpc = "done" =>
        /\ C17_ReturnsBoolean
        /\ C17_SortersReturnLists
        /\ req_line \in UnmatchableUrlLines => matched = FALSE

\* C17 as amended: a URL/VCS line with no extractable name matches only a
\* target whose lower-cased text is the lower-cased, trimmed line itself.
C17_TotalUpToExactText ==
    mpc = "done" =>
        /\ C17_ReturnsBoolean
        /\ C17_SortersReturnLists
        /\ req_line \in UnmatchableUrlLines =>
               matched = (lower(target) = strip(lower(req_line)))

\* A URL on a host other than github.com and gitlab.com, whose last segment
\* is the target, was not matched.
C17_Witness ==
    /\ mpc = "done"
    /\ target = <<"a">>
    /\ req_line = <<"h", "t", "t", "p", "s", ":", "/", "/", "h", "/", "a">>
    /\ matched = FALSE

----------------------------------------------------------------------------
\* C18: in section mode the output never begins with a blank line, never
\* ends with a blank line and never contains two consecutive blank lines:
\* non-empty sections are joined by exactly one blank line.
C18_Blanks(ls) == Cardinality({k \in DOMAIN ls : C6_Blank(ls[k])})

C18_SingleBlankBetweenSections ==
    (spc = "once" /\ mode = "section") =>
        /\ sorted1 # <<>> => ~C6_Blank(sorted1[1]) /\ ~C6_Blank(sorted1[Len(sorted1)])
        /\ \A k \in 1..(Len(sorted1) - 1) : ~(C6_Blank(sorted1[k]) /\ C6_Blank(sorted1[k + 1]))
        /\ \A k \in DOMAIN sorted1 : C6_Blank(sorted1[k]) => sorted1[k] = <<>>
        /\ C6_Runs(lines) # {} => C18_Blanks(sorted1) = Cardinality(C6_Runs(lines)) - 1

\* A whitespace-only line between two sections became one empty line.
C18_Witness ==
    /\ spc = "once"
    /\ mode = "section"
    /\ lines = <<S_z1, S_space, S_a1>>
    /\ sorted1 = <<S_z1, S_empty, S_a1>>

----------------------------------------------------------------------------
\* C19: in section mode the entries of a section are ordered by the
\* comparator applied to each entry's SortKey, which has the inline comment,
\* the extras and the version specifier removed and its case preserved;
\* under byte-order comparison an entry beginning with an upper-case letter
\* sorts before one beginning with a lower-case letter.
C19_SortKey(l) == get_sort_key(l)

C19_OrderedByCasePreservingKey ==
    (spc = "once" /\ mode = "section") =>
        \A k \in 1..(Len(sorted1) - 1) :
            (C7_Kept(sorted1[k]) /\ C7_Kept(sorted1[k + 1])) =>
                compare(yielded_comparator(effective_locale(locale_, env_locale)),
                        C19_SortKey(sorted1[k]), C19_SortKey(sorted1[k + 1])) <= 0

----------------------------------------------------------------------------
\* C20: when the requested or detected locale cannot be bound, exactly one
\* warning is emitted for the whole operation, however many sections the file
\* has, and the operation still succeeds.
C20_OneWarning ==
    (spc = "once" /\ mode = "section" /\ C11_Unbindable /\ C6_Runs(lines) # {}) =>
        sort_warnings = 1

----------------------------------------------------------------------------
\* C21: system-locale detection runs at most once per process: after the
\* first call of get_default_locale every later call returns the cached
\* result without running detection again, whatever the first detection
\* returned.
C21_DetectedOnce == default_calls >= 1 => detections = 1

----------------------------------------------------------------------------
----------------------------------------------------------------------------
\* C23: with --preview, none of update, add, remove or sort writes to a
\* requirements file: the content of every file after the command equals its
\* content before the command.
C23_PreviewWritesNothing == preview => disk = disk0

\* A previewed command went through both files and computed a change to each.
C23_Witness ==
    /\ preview
    /\ cpc = "done"
    /\ Len(processed) = 2
    /\ \A p \in DOMAIN processed : processed[p].message = "diff"

----------------------------------------------------------------------------
\* C24: removing a package that matches no line of a file makes no changes
\* to that file and reports no removal, whatever else the file contains.
C24_Unmatched(f) ==
    \A h \in DOMAIN splitlines(disk0[f]) :
        ~check_package_name(cmd_package, splitlines(disk0[f])[h])

C24_NoMatchNoRemoval ==
    command = "remove" =>
        \A p \in DOMAIN processed :
            C24_Unmatched(processed[p].file) =>
                /\ ~processed[p].wrote
                /\ processed[p].message # "Removed"
                /\ disk[processed[p].file] = disk0[processed[p].file]

\* The same, for files of entry lines alone.
C24_EntriesOnlyNoRemoval ==
    command = "remove" =>
        \A p \in DOMAIN processed :
            (/\ C24_Unmatched(processed[p].file)
             /\ \A h \in DOMAIN splitlines(disk0[processed[p].file]) :
                    C7_Kept(splitlines(disk0[processed[p].file])[h]))
                => ~processed[p].modified

----------------------------------------------------------------------------
\* C25: adding a package that already matches some line of a file, the names
\* compared case-insensitively and with "-" and "_" taken as one character,
\* makes no changes to that file: no duplicate entry is appended and the file
\* is not rewritten.
C25_Name(line) == strip(split_first(split_first(line, <<"=">>), <<"#">>))

C25_Present(f) ==
    \E h \in DOMAIN splitlines(disk0[f]) :
        /\ C7_Kept(splitlines(disk0[f])[h])
        /\ C4_Canonical(C25_Name(splitlines(disk0[f])[h])) = C4_Canonical(cmd_package)

C25_ExistingNotAdded ==
    command = "add" =>
        \A p \in DOMAIN processed :
            C25_Present(processed[p].file) =>
                /\ ~processed[p].modified
                /\ processed[p].contents = splitlines(disk0[processed[p].file])
                /\ disk[processed[p].file] = disk0[processed[p].file]

\* The same, for the files in which check_package_name finds the package.
C25_FoundNotAdded ==
    command = "add" =>
        \A p \in DOMAIN processed :
            ~C24_Unmatched(processed[p].file) =>
                /\ processed[p].message = "already exists"
                /\ processed[p].contents = splitlines(disk0[processed[p].file])
                /\ disk[processed[p].file] = disk0[processed[p].file]

----------------------------------------------------------------------------
\* C26: no requirements.txt located under a directory named venv, .venv,
\* virtualenv or .aws-sam is gathered, for every search path given, absolute
\* or relative, a directory or an explicit file.
C26_UnderExcluded == \E k \in DOMAIN tree_file : tree_file[k] \in ExcludedNames

C26_ExcludedNeverGathered == (gpc = "done" /\ C26_UnderExcluded) => gathered = <<>>

\* The same, for absolute search paths alone.
C26_AbsoluteExcluded ==
    (gpc = "done" /\ C26_UnderExcluded /\ given.absolute) => gathered = <<>>

----------------------------------------------------------------------------
\* C27: fetch_with_config tries the primary index URL, then each extra index
\* URL in order, returning the first success; the fallback URL is tried
\* exactly when all of those failed, a fallback is configured, and the
\* failures were not a 404 at every URL.
C27_Ended == fpc \in {"returned", "raised"}

C27_AllFailed == \A u \in DOMAIN url_outcomes : url_outcomes[u] # "ok"

C27_InOrderFirstSuccess ==
    C27_Ended =>
        /\ \A k \in DOMAIN tried :
               k <= Len(url_outcomes) =>
                   /\ tried[k] = k
                   /\ \A u \in 1..(k - 1) : url_outcomes[u] # "ok"
        /\ ~C27_AllFailed =>
               /\ fpc = "returned"
               /\ url_used \in DOMAIN url_outcomes
               /\ url_outcomes[url_used] = "ok"
               /\ \A u \in 1..(url_used - 1) : url_outcomes[u] # "ok"
               /\ Len(tried) = url_used

C27_FallbackTried == \E k \in DOMAIN tried : tried[k] = Len(url_outcomes) + 1

C27_FallbackExactly ==
    C27_Ended =>
        (C27_FallbackTried <=>
            /\ C27_AllFailed
            /\ fallback_outcome # "None"
            /\ ~(\A u \in DOMAIN url_outcomes : url_outcomes[u] = "404"))

C27_FetchOrder == C27_InOrderFirstSuccess /\ C27_FallbackExactly

\* The same, the fallback being left out as soon as one URL answered 404.
C27_FallbackUnlessAny404 ==
    C27_Ended =>
        (C27_FallbackTried <=>
            /\ C27_AllFailed
            /\ fallback_outcome # "None"
            /\ ~(\E u \in DOMAIN url_outcomes : url_outcomes[u] = "404"))

----------------------------------------------------------------------------
\* C28: after update of target p with normalized specifier s on a file,
\* every line that matched p before the command has been replaced by p
\* followed by s and that line's own inline comment, so no line matching p
\* still carries its old specifier, however many lines matched.
C28_Replacements(before) ==
    {updated_line(cmd_package, validate_version_specifier(cmd_token).value, before[h]) :
        h \in {k \in DOMAIN before : check_package_name(cmd_package, before[k])}}

C28_EveryMatchReplaced ==
    command = "update" =>
        \A p \in DOMAIN processed :
            LET before == splitlines(disk0[processed[p].file])
                after == processed[p].contents
            IN  /\ \A l \in C28_Replacements(before) : C6_Count(after, l) >= 1
                /\ \A k \in DOMAIN after :
                       check_package_name(cmd_package, after[k])
                           => after[k] \in C28_Replacements(before)

\* The same, for files in which at most one line matches the target.
C28_SingleMatchReplaced ==
    command = "update" =>
        \A p \in DOMAIN processed :
            LET before == splitlines(disk0[processed[p].file])
                after == processed[p].contents
            IN  Cardinality({k \in DOMAIN before :
                                check_package_name(cmd_package, before[k])}) <= 1
                => /\ \A l \in C28_Replacements(before) : C6_Count(after, l) >= 1
                   /\ \A k \in DOMAIN after :
                          check_package_name(cmd_package, after[k])
                              => after[k] \in C28_Replacements(before)

----------------------------------------------------------------------------
\* C29: update with a valid version specifier completes without an unhandled
\* exception for every file content, including files in which several lines
\* match the target and files that contain standalone comments or blank
\* lines that the re-sort inside the edit loop removes.
C29_UpdateCompletes ==
    (command = "update" /\ ~validate_version_specifier(cmd_token).raised)
        => cpc # "crashed"

\* The same, for files in which at most one line matches the target.
C29_SingleMatchCompletes ==
    (command = "update"
     /\ \A f \in DOMAIN disk0 :
            Cardinality({k \in DOMAIN splitlines(disk0[f]) :
                            check_package_name(cmd_package, splitlines(disk0[f])[k])}) <= 1)
        => cpc # "crashed"

----------------------------------------------------------------------------
\* C30: for every initial file content, running sort on a file that a
\* previous sort run has just written reports the file as already sorted and
\* does not rewrite it.
C30_SortFixedPoint ==
    command = "sort" =>
        \A p, q \in DOMAIN processed :
            (/\ processed[p].file = processed[q].file
             /\ processed[q].run = processed[p].run + 1
             /\ processed[p].wrote)
                => /\ processed[q].message = "already sorted"
                   /\ ~processed[q].wrote

\* The same, for files that hold at least one entry line.
C30_EntriesSortFixedPoint ==
    command = "sort" =>
        \A p, q \in DOMAIN processed :
            (/\ processed[p].file = processed[q].file
             /\ processed[q].run = processed[p].run + 1
             /\ processed[p].wrote
             /\ \E h \in DOMAIN processed[p].contents :
                    processed[p].contents[h] # <<>>)
                => /\ processed[q].message = "already sorted"
                   /\ ~processed[q].wrote

============================================================================
